---- MODULE Spec2Model ----
(***************************************************************************)
(* Model of the embedded-fans and embedded-fans-async crates: the Fan and  *)
(* RpmSense traits, their default (derived) methods and the `&mut T`       *)
(* delegation impls.                                                       *)
(*                                                                         *)
(* A device is a driver type T.  Its required methods (max_rpm, min_rpm,   *)
(* min_start_rpm, set_speed_rpm, rpm) are the environment: the limits are  *)
(* fixed at construction, and a fallible method is answered by the driver  *)
(* with Ok(value) or Err(kind).  Every call that reaches the driver is     *)
(* appended to the running operation's `events`, so the order and number   *)
(* of device interactions is observable.                                   *)
(*                                                                         *)
(* A fallible operation takes two steps: the call (everything up to the    *)
(* point where the driver's set_speed_rpm/rpm has been entered; in the     *)
(* async crate this is the `.await`), and DriverReturn (the driver         *)
(* answers and the rest of the method body runs).                          *)
(***************************************************************************)
EXTENDS Integers, Sequences, FiniteSets

\* ------------------------------------------------------------------ bounds
NumTasks == 2        \* tasks / threads that want to use the device
MaxDepth == 1        \* layers of `&mut` between the caller and the device
RpmGrid == 2         \* max_rpm is sampled on a grid of this many intervals
PercentGrid == 2     \* percent is sampled on a grid of this many intervals

\* ------------------------------------------------------- program constants
U16Modulus == 65536          \* u16 arithmetic wraps modulo 2^16
U8Max == 255                 \* percent: u8
PercentMax == 100            \* debug_assert!((0..=100).contains(&percent))
PercentDivisor == 100        \* "/ 100"

Tasks == 1..NumTasks
Depths == 0..MaxDepth
Variants == {"blocking", "async"}
ErrorKind == {"Peripheral", "InvalidSpeed", "Other"}

\* Sampled maximum speeds: the grid over the whole u16 range and the smallest
\* value whose product with 100 no longer fits in 16 bits.
MaxRpmSamples ==
    {(k * (U16Modulus - 1)) \div RpmGrid : k \in 0..RpmGrid} \cup {656}

\* (max_rpm, min_rpm, min_start_rpm) of the modelled drivers: one without
\* lower limits per sampled maximum, the driver of the crate documentation
\* (3150, 0, 1120), and one like it that cannot run below 800 rpm.  Every triple satisfies
\* min_rpm <= min_start_rpm <= max_rpm.
DeviceLimits ==
    {<<m, 0, 0>> : m \in MaxRpmSamples}
        \cup {<<3150, 0, 1120>>, <<3150, 800, 1120>>}

\* Sampled percent arguments: the grid over 0..=100, the values of the
\* documented scenario, and two values that violate the precondition.
PercentSamples ==
    {(k * PercentMax) \div PercentGrid : k \in 0..PercentGrid}
        \cup {35, 50} \cup {PercentMax + 1, U8Max}

VARIABLES
    variant,           \* which crate the program uses: "blocking" | "async"
    debug_assertions,  \* build flag: debug_assert! is compiled in
    overflow_checks,   \* build flag: integer overflow panics instead of wrapping
    overridden,        \* the driver overrides the derived methods itself
    max_rpm,           \* value returned by the driver's max_rpm()
    min_rpm,           \* value returned by the driver's min_rpm()
    min_start_rpm,     \* value returned by the driver's min_start_rpm()
    pc,                \* per task: "idle" | "in_driver"
    cur,               \* per task: the operation in progress
    last               \* the operation that completed most recently

vars == <<variant, debug_assertions, overflow_checks, overridden,
          max_rpm, min_rpm, min_start_rpm, pc, cur, last>>

config == <<variant, debug_assertions, overflow_checks, overridden,
            max_rpm, min_rpm, min_start_rpm>>

\* --------------------------------------------------------------- values
NoArg == -1

Ev(call, arg) == [call |-> call, arg |-> arg]

NoResult == [kind |-> "None", val |-> 0, err |-> "none"]
Ok(v) == [kind |-> "Ok", val |-> v, err |-> "none"]
Err(e) == [kind |-> "Err", val |-> 0, err |-> e]
Unit == [kind |-> "Unit", val |-> 0, err |-> "none"]
Value(v) == [kind |-> "Value", val |-> v, err |-> "none"]
Panic == [kind |-> "Panic", val |-> 0, err |-> "none"]

\* What a method body does up to the point where it is inside the driver:
\*   panic  - the body panicked (after `events`)
\*   events - the driver methods it called, in order
\*   ret    - "value": returns `val` at once (an infallible query);
\*            "result": returns the driver's Result unchanged;
\*            "unit": applies `?` to the driver's Result and returns Ok(())
Query(call, v) == [panic |-> FALSE, events |-> <<Ev(call, NoArg)>>, ret |-> "value", val |-> v]
Awaiting(evs, ret) == [panic |-> FALSE, events |-> evs, ret |-> ret, val |-> 0]
Panicked(evs) == [panic |-> TRUE, events |-> evs, ret |-> "panic", val |-> 0]

NoOp == [op |-> "none", arg |-> NoArg, depth |-> 0, ret |-> "none",
         events |-> <<>>, awaits |-> 0, resp |-> NoResult, result |-> NoResult]

\* ------------------------------------------------- the driver (type T)
T_max_rpm == Query("max_rpm", max_rpm)
T_min_rpm == Query("min_rpm", min_rpm)
T_min_start_rpm == Query("min_start_rpm", min_start_rpm)
T_set_speed_rpm(rpm) == Awaiting(<<Ev("set_speed_rpm", rpm)>>, "result")
T_rpm == Awaiting(<<Ev("rpm", NoArg)>>, "result")

\* A driver that overrides a derived method handles it natively.
Override_set_speed_percent(percent) == Awaiting(<<Ev("set_speed_percent", percent)>>, "result")
Override_set_speed_max == Awaiting(<<Ev("set_speed_max", NoArg)>>, "unit")
Override_stop == Awaiting(<<Ev("stop", NoArg)>>, "unit")

\* The answers the driver can give to the call it was entered with.
DriverOutcomes(ev) ==
    {Err(e) : e \in ErrorKind} \cup
    CASE ev.call = "set_speed_rpm" -> {Ok(ev.arg), Ok(ev.arg - (ev.arg % 2))}
      [] ev.call = "set_speed_percent" -> {Ok((max_rpm * ev.arg) \div PercentDivisor % U16Modulus)}
      [] ev.call = "rpm" -> {Ok(0), Ok(42)}
      [] OTHER -> {Ok(0)}

\* ----------------------------------------- embedded-fans (blocking) Fan
BlockingTargetU16(max, percent) ==
    ((max * percent) % U16Modulus) \div PercentDivisor

\* x modulo 2^32, computed on the two 16-bit halves of x
WrapU32(x) ==
    ((x \div U16Modulus) % U16Modulus) * U16Modulus + (x % U16Modulus)

\* ((u32::from(self.max_rpm()) * u32::from(percent)) / 100) as u16
BlockingTarget(max, percent) ==
    (WrapU32(max * percent) \div PercentDivisor) % U16Modulus

Blocking_set_speed_percent_unchecked(percent) ==
    Awaiting(<<Ev("max_rpm", NoArg),
               Ev("set_speed_rpm", BlockingTarget(max_rpm, percent))>>, "result")

Blocking_set_speed_percent(percent) ==
    IF debug_assertions /\ ~(percent \in 0..PercentMax)
    THEN Panicked(<<>>)
    ELSE Awaiting(<<Ev("max_rpm", NoArg),
                    Ev("set_speed_rpm", BlockingTarget(max_rpm, percent))>>, "result")

Blocking_set_speed_max ==
    Awaiting(<<Ev("max_rpm", NoArg), Ev("set_speed_rpm", max_rpm)>>, "unit")

Blocking_stop_min == Awaiting(<<Ev("min_rpm", NoArg), Ev("set_speed_rpm", min_rpm)>>, "unit")

Blocking_stop == Awaiting(<<Ev("set_speed_rpm", 0)>>, "unit")

\* ------------------------------------------- embedded-fans-async Fan
\* (self.max_rpm() * u16::from(percent)) / 100, a u16 multiplication
AsyncOverflows(max, percent) == max * percent >= U16Modulus

AsyncTarget(max, percent) ==
    ((max * percent) % U16Modulus) \div PercentDivisor

Async_set_speed_percent_clamped(percent) ==
    LET target == AsyncTarget(max_rpm, percent)
    IN  Awaiting(<<Ev("max_rpm", NoArg), Ev("min_start_rpm", NoArg),
                   Ev("set_speed_rpm", IF 0 < target /\ target < min_start_rpm
                                       THEN min_start_rpm ELSE target)>>, "result")

Async_set_speed_percent(percent) ==
    IF debug_assertions /\ ~(percent \in 0..PercentMax)
    THEN Panicked(<<>>)
    ELSE IF overflow_checks /\ AsyncOverflows(max_rpm, percent)
    THEN Panicked(<<Ev("max_rpm", NoArg)>>)
    ELSE Awaiting(<<Ev("max_rpm", NoArg),
                    Ev("set_speed_rpm", AsyncTarget(max_rpm, percent))>>, "result")

Async_set_speed_max ==
    Awaiting(<<Ev("max_rpm", NoArg), Ev("set_speed_rpm", max_rpm)>>, "unit")

Async_stop == Awaiting(<<Ev("set_speed_rpm", 0)>>, "unit")

\* ------------------------------------- dispatch on the driver type T
\* T::method: the driver's own method where it overrides the derived one,
\* the trait's default body otherwise.
T_set_speed_percent(percent) ==
    IF overridden THEN Override_set_speed_percent(percent)
    ELSE IF variant = "blocking" THEN Blocking_set_speed_percent(percent)
    ELSE Async_set_speed_percent(percent)

T_set_speed_max ==
    IF overridden THEN Override_set_speed_max
    ELSE IF variant = "blocking" THEN Blocking_set_speed_max
    ELSE Async_set_speed_max

T_stop ==
    IF overridden THEN Override_stop
    ELSE IF variant = "blocking" THEN Blocking_stop
    ELSE Async_stop

\* --------------------------- impl Fan / RpmSense for &mut T (blocking)
\* Each method takes `inner`, what the same method does on the borrowed T.
BlockingRef_max_rpm(inner) == inner
BlockingRef_min_rpm(inner) == inner
BlockingRef_min_start_rpm(inner) == inner
BlockingRef_set_speed_rpm(inner, rpm) == inner

BlockingRef_rederive_percent(inner, percent) == Blocking_set_speed_percent(percent)

BlockingRef_set_speed_percent(inner, percent) == inner
BlockingRef_set_speed_max(inner) == inner
BlockingRef_stop(inner) == inner
BlockingRef_rpm(inner) == inner

\* ------------------------------ impl Fan / RpmSense for &mut T (async)
AsyncRef_set_speed_rpm(inner, rpm) == inner
AsyncRef_max_rpm(inner) == inner
AsyncRef_min_rpm(inner) == inner
AsyncRef_min_start_rpm(inner) == inner
AsyncRef_set_speed_percent(inner, percent) == inner
AsyncRef_set_speed_max(inner) == inner
AsyncRef_stop(inner) == inner
AsyncRef_rpm(inner) == inner

\* The method `op` called on T itself.
OnDevice(op, arg) ==
    CASE op = "max_rpm" -> T_max_rpm
      [] op = "min_rpm" -> T_min_rpm
      [] op = "min_start_rpm" -> T_min_start_rpm
      [] op = "set_speed_rpm" -> T_set_speed_rpm(arg)
      [] op = "set_speed_percent" -> T_set_speed_percent(arg)
      [] op = "set_speed_max" -> T_set_speed_max
      [] op = "stop" -> T_stop
      [] op = "rpm" -> T_rpm

\* One layer of `&mut` around something that does `inner`.
ThroughRef(op, arg, inner) ==
    IF variant = "blocking"
    THEN CASE op = "max_rpm" -> BlockingRef_max_rpm(inner)
           [] op = "min_rpm" -> BlockingRef_min_rpm(inner)
           [] op = "min_start_rpm" -> BlockingRef_min_start_rpm(inner)
           [] op = "set_speed_rpm" -> BlockingRef_set_speed_rpm(inner, arg)
           [] op = "set_speed_percent" -> BlockingRef_set_speed_percent(inner, arg)
           [] op = "set_speed_max" -> BlockingRef_set_speed_max(inner)
           [] op = "stop" -> BlockingRef_stop(inner)
           [] op = "rpm" -> BlockingRef_rpm(inner)
    ELSE CASE op = "max_rpm" -> AsyncRef_max_rpm(inner)
           [] op = "min_rpm" -> AsyncRef_min_rpm(inner)
           [] op = "min_start_rpm" -> AsyncRef_min_start_rpm(inner)
           [] op = "set_speed_rpm" -> AsyncRef_set_speed_rpm(inner, arg)
           [] op = "set_speed_percent" -> AsyncRef_set_speed_percent(inner, arg)
           [] op = "set_speed_max" -> AsyncRef_set_speed_max(inner)
           [] op = "stop" -> AsyncRef_stop(inner)
           [] op = "rpm" -> AsyncRef_rpm(inner)

\* The method `op` called through `depth` layers of `&mut`.
RECURSIVE Dispatch(_, _, _)
Dispatch(depth, op, arg) ==
    IF depth = 0 THEN OnDevice(op, arg)
    ELSE ThroughRef(op, arg, Dispatch(depth - 1, op, arg))

\* ------------------------------- the rest of a body, after the driver
\* What a method does once the driver has answered `resp`:
\*   calls  - further driver calls it makes (it then waits again)
\*   result - what it returns when it makes none
SwallowError(resp) == [calls |-> <<>>, result |-> Unit]

RetryOnError(resp) ==
    IF resp.kind = "Err" THEN [calls |-> <<Ev("set_speed_rpm", 0)>>, result |-> NoResult]
    ELSE [calls |-> <<>>, result |-> Unit]

\* self.set_speed_rpm(..)?; Ok(())
QuestionMarkThenUnit(resp) ==
    [calls |-> <<>>, result |-> IF resp.kind = "Err" THEN resp ELSE Unit]

\* self.set_speed_rpm(..) as the tail expression: the driver's Result itself
TailResult(resp) == [calls |-> <<>>, result |-> resp]

AfterDriver(ret, resp) ==
    IF ret = "unit" THEN QuestionMarkThenUnit(resp) ELSE TailResult(resp)

\* ------------------------------------------------------ exclusive access
SharedAccess(t) == pc[t] = "idle"

\* `&mut self` / `&mut T`: the caller needs the only live borrow of the
\* device, and an operation in progress holds its borrow until it returns.
ExclusiveAccess(t) == \A u \in Tasks : pc[u] = "idle"

\* `&self`: no exclusive borrow may be live.
ReadAccess(t) == \A u \in Tasks : pc[u] = "idle"

\* ---------------------------------------------------------------- Init
Init ==
    /\ variant \in Variants
    /\ debug_assertions \in BOOLEAN
    /\ overflow_checks \in BOOLEAN
    /\ overridden \in BOOLEAN
    /\ \E lim \in DeviceLimits :
          /\ max_rpm = lim[1]
          /\ min_rpm = lim[2]
          /\ min_start_rpm = lim[3]
    /\ pc = [t \in Tasks |-> "idle"]
    /\ cur = [t \in Tasks |-> NoOp]
    /\ last = NoOp

\* ------------------------------------------------------------- actions
\* Task t calls `op(arg)` through `depth` layers of `&mut`; the body runs
\* until it returns, panics, or is inside the driver.
Invoke(t, depth, op, arg) ==
    LET plan == Dispatch(depth, op, arg)
        rec == [op |-> op, arg |-> arg, depth |-> depth, ret |-> plan.ret,
                events |-> plan.events, awaits |-> 0,
                resp |-> NoResult, result |-> NoResult]
    IN  /\ UNCHANGED config
        /\ IF plan.panic
           THEN /\ last' = [rec EXCEPT !.result = Panic]
                /\ UNCHANGED <<pc, cur>>
           ELSE IF plan.ret = "value"
           THEN /\ last' = [rec EXCEPT !.result = Value(plan.val)]
                /\ UNCHANGED <<pc, cur>>
           ELSE /\ pc' = [pc EXCEPT ![t] = "in_driver"]
                /\ cur' = [cur EXCEPT ![t] = [rec EXCEPT !.awaits = 1]]
                /\ last' = NoOp

max_rpm_call(t, depth) ==
    /\ ReadAccess(t)
    /\ Invoke(t, depth, "max_rpm", NoArg)

min_rpm_call(t, depth) ==
    /\ ReadAccess(t)
    /\ Invoke(t, depth, "min_rpm", NoArg)

min_start_rpm_call(t, depth) ==
    /\ ReadAccess(t)
    /\ Invoke(t, depth, "min_start_rpm", NoArg)

set_speed_rpm_call(t, depth, rpm) ==
    /\ ExclusiveAccess(t)
    /\ Invoke(t, depth, "set_speed_rpm", rpm)

set_speed_percent_call(t, depth, percent) ==
    /\ ExclusiveAccess(t)
    /\ Invoke(t, depth, "set_speed_percent", percent)

set_speed_max_call(t, depth) ==
    /\ ExclusiveAccess(t)
    /\ Invoke(t, depth, "set_speed_max", NoArg)

stop_call(t, depth) ==
    /\ ExclusiveAccess(t)
    /\ Invoke(t, depth, "stop", NoArg)

rpm_call(t, depth) ==
    /\ ExclusiveAccess(t)
    /\ Invoke(t, depth, "rpm", NoArg)

\* The driver answers the call task t is waiting in, and the rest of the
\* method body runs.
DriverReturn(t) ==
    /\ pc[t] = "in_driver"
    /\ \E resp \in DriverOutcomes(cur[t].events[Len(cur[t].events)]) :
          LET after == AfterDriver(cur[t].ret, resp)
          IN  IF after.calls = <<>>
              THEN /\ last' = [cur[t] EXCEPT !.resp = resp, !.result = after.result]
                   /\ pc' = [pc EXCEPT ![t] = "idle"]
                   /\ cur' = [cur EXCEPT ![t] = NoOp]
              ELSE /\ cur' = [cur EXCEPT ![t].events = cur[t].events \o after.calls,
                                         ![t].awaits = cur[t].awaits + 1]
                   /\ UNCHANGED <<pc, last>>
    /\ UNCHANGED config

Next ==
    \E t \in Tasks :
        \/ \E depth \in Depths :
              \/ max_rpm_call(t, depth)
              \/ min_rpm_call(t, depth)
              \/ min_start_rpm_call(t, depth)
              \/ \E rpm \in {0, min_start_rpm, max_rpm} : set_speed_rpm_call(t, depth, rpm)
              \/ \E percent \in PercentSamples : set_speed_percent_call(t, depth, percent)
              \/ set_speed_max_call(t, depth)
              \/ stop_call(t, depth)
              \/ rpm_call(t, depth)
        \/ DriverReturn(t)

Spec == Init /\ [][Next]_vars

\* =============================================================== claims
DerivedOps == {"set_speed_percent", "set_speed_max", "stop"}

\* The operations whose driver calls can be observed in this state.
Observed == {last} \cup {cur[t] : t \in Tasks}

\* The set_speed_rpm calls an operation has made, and their arguments.
Commands(r) == SelectSeq(r.events, LAMBDA e : e.call = "set_speed_rpm")
Targets(r) == [i \in 1..Len(Commands(r)) |-> Commands(r)[i].arg]

\* r is a derived operation executed by the trait's default body.
ByDefault(r) == ~overridden /\ r.op \in DerivedOps

\* C1: in the blocking crate, set_speed_percent(percent) with percent in
\* 0..=100 calls set_speed_rpm exactly once, with floor(max_rpm * percent / 100),
\* whatever the size of the product.
C1_BlockingPercentTarget ==
    \A r \in Observed :
        (variant = "blocking" /\ ByDefault(r) /\ r.op = "set_speed_percent"
            /\ r.arg \in 0..PercentMax)
        => /\ r.result.kind # "Panic"
           /\ Targets(r) = <<(max_rpm * r.arg) \div 100>>

C1_Witness ==
    /\ variant = "blocking" /\ ~overridden /\ max_rpm = 65535
    /\ last.op = "set_speed_percent" /\ last.arg = 100
    /\ Targets(last) = <<65535>> /\ last.result.kind = "Ok"

\* C2: in the async crate, set_speed_percent(percent) with percent in 0..=100
\* calls set_speed_rpm exactly once, with floor(max_rpm * percent / 100),
\* the product never overflowing.
C2_AsyncPercentTarget ==
    \A r \in Observed :
        (variant = "async" /\ ByDefault(r) /\ r.op = "set_speed_percent"
            /\ r.arg \in 0..PercentMax)
        => /\ r.result.kind # "Panic"
           /\ Targets(r) = <<(max_rpm * r.arg) \div 100>>

\* C3: in both crates set_speed_percent(0) commands 0, the target of stop(),
\* and set_speed_percent(100) commands max_rpm(), the target of
\* set_speed_max().
C3_PercentEndpoints ==
    \A r \in Observed :
        (ByDefault(r) /\ r.op = "set_speed_percent")
        => /\ r.arg = 0 => Targets(r) = <<0>>
           /\ r.arg = PercentMax => Targets(r) = <<max_rpm>>

\* C4: in both crates set_speed_max() makes exactly one set_speed_rpm call,
\* with the value max_rpm() returned, and stop() exactly one, with 0; when the
\* driver answers Ok(achieved) each returns Ok(()).
C4_MaxAndStopTargets ==
    \A r \in Observed :
        ByDefault(r)
        => /\ r.op = "set_speed_max"
                => r.events = <<Ev("max_rpm", NoArg), Ev("set_speed_rpm", max_rpm)>>
           /\ r.op = "stop" => r.events = <<Ev("set_speed_rpm", 0)>>
           /\ (r.op \in {"set_speed_max", "stop"} /\ r.resp.kind = "Ok")
                => r.result = Unit

C4_Witness ==
    /\ ~overridden /\ min_rpm > 0
    /\ last.op = "stop" /\ Targets(last) = <<0>>
    /\ last.resp.kind = "Ok" /\ last.result = Unit

\* C5: an operation called through one or more `&mut` layers makes the same
\* driver calls, in the same order, and returns the same value as the
\* operation called on the device itself; a driver's own override of a
\* derived operation is what runs.
C5_DelegationTransparency ==
    \A r \in Observed :
        (r.op # "none" /\ r.depth > 0)
        => LET direct == OnDevice(r.op, r.arg)
           IN  /\ r.events = direct.events
               /\ r.ret = direct.ret
               /\ direct.panic => r.result = Panic
               /\ direct.ret = "value" => r.result = Value(direct.val)
               /\ r.resp.kind # "None"
                    => r.result = AfterDriver(direct.ret, r.resp).result

C5_Witness ==
    /\ overridden /\ last.depth > 0
    /\ last.op = "set_speed_percent"
    /\ last.events = <<Ev("set_speed_percent", last.arg)>>
    /\ last.result.kind = "Ok"

\* C6: a derived operation makes one set_speed_rpm call and returns its
\* outcome: Err(e) comes back as the same Err(e), with no second call, and
\* set_speed_percent returns the driver's Ok(achieved) as it is.
C6_OutcomePropagation ==
    \A r \in Observed :
        ByDefault(r)
        => /\ Len(Commands(r)) <= 1
           /\ r.resp.kind # "None"
                => /\ Len(Commands(r)) = 1
                   /\ r.resp.kind = "Err" => r.result = r.resp
                   /\ (r.resp.kind = "Ok" /\ r.op = "set_speed_percent")
                        => r.result = r.resp

C6_Witness ==
    /\ ~overridden /\ last.op = "set_speed_max"
    /\ last.resp = Err("Peripheral") /\ last.result = Err("Peripheral")
    /\ Len(Commands(last)) = 1

\* C7: in the async crate a derived operation is suspended only in its one
\* set_speed_rpm call: by then max_rpm() has been read and the target
\* computed, and when the driver answers the operation returns without
\* another driver call or suspension.
Suspended(t) == variant = "async" /\ pc[t] = "in_driver" /\ ByDefault(cur[t])

C7_AtSuspension(r) ==
    /\ r.awaits = 1
    /\ Len(Commands(r)) = 1
    /\ r.events[Len(r.events)].call = "set_speed_rpm"
    /\ r.op # "stop" => r.events[1] = Ev("max_rpm", NoArg)

C7_Step ==
    \A t \in Tasks :
        /\ Suspended(t)
             => /\ C7_AtSuspension(cur[t])
                /\ \/ /\ pc'[t] = "idle"
                      /\ last'.events = cur[t].events
                      /\ last'.awaits = 1
                   \/ UNCHANGED <<pc, cur, last>>
        /\ Suspended(t)' => C7_AtSuspension(cur[t])'

C7_SuspendOnlyInDriver == [][C7_Step]_vars

C7_Witness ==
    /\ variant = "async" /\ ~overridden
    /\ last.op = "set_speed_max" /\ last.awaits = 1
    /\ last.result.kind \in {"Unit", "Err"}

\* C8: at most one operation that needs `&mut` is in progress on the device
\* at any time, and one starts only when no other is in progress, also when
\* the device is reached through `&mut` layers.
InProgress == {t \in Tasks : pc[t] = "in_driver"}

C8_Step ==
    /\ Cardinality(InProgress') <= 1
    /\ \A t \in Tasks :
          (pc[t] = "idle" /\ pc'[t] = "in_driver") => InProgress = {}

C8_ExclusiveAccess == [][C8_Step]_vars

C8_Witness ==
    \E t \in Tasks :
        /\ pc[t] = "in_driver" /\ cur[t].depth > 0
        /\ cur[t].op = "set_speed_percent"
        /\ variant = "async"

\* C9: with debug assertions on, set_speed_percent(percent) with percent in
\* 101..=255 panics before any driver call; and in every build an Err that
\* set_speed_percent returns is the Err the driver's set_speed_rpm returned.
C9_OutOfRangePercent ==
    \A r \in Observed :
        (ByDefault(r) /\ r.op = "set_speed_percent")
        => /\ (debug_assertions /\ r.arg \in (PercentMax + 1)..U8Max)
                => (r.result = Panic /\ r.events = <<>>)
           /\ r.result.kind = "Err"
                => (r.resp = r.result /\ Len(Commands(r)) = 1)

C9_Witness ==
    /\ debug_assertions /\ ~overridden
    /\ last.op = "set_speed_percent" /\ last.arg = U8Max
    /\ last.result = Panic /\ last.events = <<>>

\* C10: a derived operation never calls min_rpm() or min_start_rpm(); the
\* target it commands is determined by max_rpm() and percent alone (0 for
\* stop, also when min_rpm > 0; possibly non-zero and below min_start_rpm for
\* set_speed_percent); an InvalidSpeed it returns was returned by the driver.
C10_TargetOf(r) ==
    CASE r.op = "stop" -> 0
      [] r.op = "set_speed_max" -> max_rpm
      [] r.op = "set_speed_percent" ->
            IF variant = "blocking"
            THEN ((max_rpm * r.arg) \div 100) % 65536
            ELSE ((max_rpm * r.arg) % 65536) \div 100

C10_NoLowerLimit ==
    \A r \in Observed :
        ByDefault(r)
        => /\ \A i \in 1..Len(r.events) :
                 r.events[i].call \notin {"min_rpm", "min_start_rpm"}
           /\ \A i \in 1..Len(Targets(r)) : Targets(r)[i] = C10_TargetOf(r)
           /\ r.result = Err("InvalidSpeed") => r.resp = Err("InvalidSpeed")

C10_Witness ==
    /\ ~overridden /\ max_rpm = 3150 /\ min_start_rpm = 1120
    /\ last.op = "set_speed_percent" /\ last.arg = 35
    /\ Targets(last) = <<1102>>
    /\ last.result.kind = "Ok"

====
